---------------------------- MODULE Spec2Model ----------------------------
(***************************************************************************)
(* Model of the rk-db ClickHouse entry: option builder, registration,      *)
(* Bootstrap/connect, Interrupt, IsHealthy, GetDB and String.              *)
(*                                                                         *)
(* Two revisions of the entry live in the repository and both are          *)
(* modelled; the variable `variant` says which one a behaviour runs:       *)
(*   "v1"  src/clickhouse/boot.go  (zap logger entry, no plugins)          *)
(*   "v2"  src/unnamed/part_001    (Logger adapter, plugins, closeDB)      *)
(*                                                                         *)
(* The ORM (gorm), the SQL driver and the host registry are external.      *)
(* gorm.Open, Exec, Ping and Close are modelled by their outcome, which    *)
(* the environment chooses; a successful gorm.Open adds one connection to  *)
(* `conns`, and a handle is the index of its connection in `conns`.        *)
(* String values hold no character that JSON would escape.                 *)
(***************************************************************************)
EXTENDS Integers, Sequences, FiniteSets, TLC

VARIABLES
    variant,    \* which revision of the entry runs
    phase,      \* "new" | "building" | "registered" | "halted"
    opts,       \* the options applied so far / handed to RegisterClickHouseEntry
    entry,      \* the ClickHouseEntry struct
    registry,   \* rkentry.GlobalAppCtx: registry key -> the entry stored under it
    regOps,     \* the AddEntry / RemoveEntry calls made on the registry, in order
    env,        \* the process environment: REALM, REGION, AZ, DOMAIN
    bootConfig, \* the parsed boot configuration: the sequence of its blocks
    res,        \* the map the YAML registration returned: name -> entry
    loggerEntries, \* the registry's logger entries: name -> zap configuration
    conns,      \* every connection gorm.Open has opened:
                \*   [kind, db, dsn, config, native, closed]
    log,        \* the steps connect() has attempted: [call, idx, step, ok]
    shutdowns,  \* the messages handed to ShutdownWithError
    calls,      \* [boot, intr]: how many Bootstrap / Interrupt calls were made
    ret         \* the last operation and what it returned

vars == <<variant, phase, opts, entry, registry, regOps, env, bootConfig, res,
          loggerEntries, conns, log, shutdowns, calls, ret>>

----------------------------------------------------------------------------
(* Bounds of the model *)

\* WithDatabase options in one option list of the lifecycle specification
MaxDbs == 3
\* Bootstrap calls on one entry
MaxBootstraps == 2
\* Interrupt calls on one entry
MaxInterrupts == 2
\* options applied one by one in the option-builder specification
MaxOpts == 3
\* blocks of one boot configuration in the YAML specification
MaxBlocks == 2
\* AddEntry and RemoveEntry calls in the registry specification
MaxRegOps == 3

----------------------------------------------------------------------------
(* Values *)

Variants == {"v1", "v2"}

\* a nil gorm.Plugin / zap logger / registry entry
Nil == "<nil>"

\* database names; "" is the empty name WithDatabase ignores
DbNames == {"a", "b"}

\* passwords; "" is the value WithPass ignores
Passwords == {"", "pw1", "pw2"}

\* gormLogger.LogLevel
LogLevels == {"Silent", "Error", "Warn", "Info"}

\* a *Logger: the adapter's zap delegate, minimum level, slow-query threshold
\* (in milliseconds) and ignore-record-not-found flag
Logger(delegate, level, slowMs, ignore) ==
    [ delegate |-> delegate, LogLevel |-> level, SlowThreshold |-> slowMs,
      IgnoreRecordNotFoundError |-> ignore ]

\* a nil *Logger / *rkentry.ZapLoggerEntry
NilLogger == Logger(Nil, "", 0, FALSE)

\* the Logger RegisterClickHouseEntry gives an entry (v2)
DefaultLogger == Logger("default", "Warn", 5000, FALSE)

\* GetZapLoggerEntryDefault() (v1): a zap logger, no level or threshold of its own
ZapLoggerEntryDefault == Logger("default", "", 0, FALSE)

\* const ClickHouseEntryType (v2) / the EntryType literal (v1)
ClickHouseEntryType(v) == IF v = "v2" THEN "ClickHouseEntry" ELSE "ClickHouse"

\* the zero value of the struct: what exists before RegisterClickHouseEntry
ZeroEntry ==
    [ entryName        |-> "",
      entryType        |-> "",
      entryDescription |-> "",
      User             |-> "",
      pass             |-> "",
      logger           |-> NilLogger,
      Addr             |-> "",
      innerDbList      |-> << >>,
      GormDbMap        |-> << >>,
      GormConfigMap    |-> << >> ]

\* mutant: the struct literal leaves the address out
DefaultEntry_NoAddr(v) == [ZeroEntry EXCEPT !.entryName = "ClickHouse",
                                            !.entryType = ClickHouseEntryType(v),
                                            !.entryDescription = "ClickHouse entry for gorm.DB",
                                            !.User = "default",
                                            !.logger = IF v = "v2" THEN DefaultLogger
                                                       ELSE ZapLoggerEntryDefault]

\* the struct literal RegisterClickHouseEntry starts from
DefaultEntry(v) ==
    [ entryName        |-> "ClickHouse",
      entryType        |-> ClickHouseEntryType(v),
      entryDescription |-> "ClickHouse entry for gorm.DB",
      User             |-> "default",
      pass             |-> "",
      logger           |-> IF v = "v2" THEN DefaultLogger ELSE ZapLoggerEntryDefault,
      Addr             |-> "localhost:9000",
      innerDbList      |-> << >>,
      GormDbMap        |-> << >>,
      GormConfigMap    |-> << >> ]

----------------------------------------------------------------------------
(* Option builder.  An Option is a closure; it is modelled by the record   *)
(* of the mutator's name and arguments, and ApplyOption runs its body.     *)

Opt(kind, val, dryRun, autoCreate, params, plugin) ==
    [ kind |-> kind, val |-> val, dryRun |-> dryRun, autoCreate |-> autoCreate,
      params |-> params, plugin |-> plugin ]

OptName(name)        == Opt("WithName", name, FALSE, FALSE, << >>, Nil)
OptDescription(d)    == Opt("WithDescription", d, FALSE, FALSE, << >>, Nil)
OptUser(user)        == Opt("WithUser", user, FALSE, FALSE, << >>, Nil)
OptPass(pass)        == Opt("WithPass", pass, FALSE, FALSE, << >>, Nil)
OptAddr(addr)        == Opt("WithAddr", addr, FALSE, FALSE, << >>, Nil)
OptLogger(logger)    == Opt("WithLogger", logger, FALSE, FALSE, << >>, Nil)
OptDatabase(name, dryRun, autoCreate, params) ==
    Opt("WithDatabase", name, dryRun, autoCreate, params, Nil)
OptPlugin(name, plugin) == Opt("WithPlugin", name, FALSE, FALSE, << >>, plugin)

WithName(e, name) == [e EXCEPT !.entryName = name]

WithDescription(e, description) == [e EXCEPT !.entryDescription = description]

WithUser(e, user) == IF Len(user) > 0 THEN [e EXCEPT !.User = user] ELSE e

WithPass(e, pass) == IF Len(pass) > 0 THEN [e EXCEPT !.pass = pass] ELSE e

WithAddr(e, addr) == IF Len(addr) > 0 THEN [e EXCEPT !.Addr = addr] ELSE e

WithLogger(e, logger) == IF logger # NilLogger THEN [e EXCEPT !.logger = logger] ELSE e

\* mutant: a name declared before replaces its descriptor instead of adding one
WithDatabase_MergesByName(e, name, dryRun, autoCreate, params) ==
    LET d == [ name |-> name, dryRun |-> dryRun, autoCreate |-> autoCreate,
               params |-> params, plugins |-> << >> ]
    IN IF Len(name) < 1 THEN e
       ELSE IF \E i \in DOMAIN e.innerDbList : e.innerDbList[i].name = name
       THEN [e EXCEPT !.innerDbList =
                [i \in DOMAIN @ |-> IF @[i].name = name THEN d ELSE @[i]]]
       ELSE [e EXCEPT !.innerDbList = Append(@, d)]

WithDatabase(e, name, dryRun, autoCreate, params) ==
    IF Len(name) < 1 THEN e
    ELSE [e EXCEPT !.innerDbList =
            Append(@, [ name |-> name, dryRun |-> dryRun, autoCreate |-> autoCreate,
                        params |-> params, plugins |-> << >> ])]

\* mutant: the plugin is attached to every descriptor, whatever its name
WithPlugin_AnyDescriptor(e, name, plugin) ==
    IF name = "" \/ plugin = Nil THEN e
    ELSE [e EXCEPT !.innerDbList =
            [i \in DOMAIN @ |-> [@[i] EXCEPT !.plugins = Append(@, plugin)]]]

WithPlugin(e, name, plugin) ==
    IF name = "" \/ plugin = Nil THEN e
    ELSE [e EXCEPT !.innerDbList =
            [i \in DOMAIN @ |->
                IF @[i].name = name
                THEN [@[i] EXCEPT !.plugins = Append(@, plugin)]
                ELSE @[i]]]

ApplyOption(e, o) ==
    CASE o.kind = "WithName"        -> WithName(e, o.val)
      [] o.kind = "WithDescription" -> WithDescription(e, o.val)
      [] o.kind = "WithUser"        -> WithUser(e, o.val)
      [] o.kind = "WithPass"        -> WithPass(e, o.val)
      [] o.kind = "WithAddr"        -> WithAddr(e, o.val)
      [] o.kind = "WithLogger"      -> WithLogger(e, o.val)
      [] o.kind = "WithDatabase"    ->
            WithDatabase(e, o.val, o.dryRun, o.autoCreate, o.params)
      [] o.kind = "WithPlugin"      -> WithPlugin(e, o.val, o.plugin)

\* for i := range opts { opts[i](entry) }
RECURSIVE ApplyOptions(_, _)
ApplyOptions(e, os) ==
    IF os = << >> THEN e ELSE ApplyOptions(ApplyOption(e, Head(os)), Tail(os))

----------------------------------------------------------------------------
(* Registration *)

\* the fmt.Sprintf that replaces an empty description
GeneratedDescription(e) ==
    e.entryType \o " entry with name of " \o e.entryName
        \o ", addr:" \o e.Addr \o ", user:" \o e.User

\* the Logger of the gorm configs: v2 embeds the entry's Logger; v1 wraps the
\* entry's zap logger with a fixed level and threshold
GormLogger(e) ==
    IF e.entryType = ClickHouseEntryType("v1")
    THEN Logger(e.logger.delegate, "Warn", 200, FALSE)
    ELSE e.logger

\* the loop that creates one gorm.Config per descriptor, in list order;
\* a later descriptor of the same name overwrites the earlier config
RECURSIVE GormConfigs(_, _, _)
GormConfigs(e, i, m) ==
    IF i > Len(e.innerDbList) THEN m
    ELSE LET d == e.innerDbList[i]
             cfg == [ Logger |-> GormLogger(e), DryRun |-> d.dryRun ]
         IN GormConfigs(e, i + 1,
                [n \in DOMAIN m \cup {d.name} |-> IF n = d.name THEN cfg ELSE m[n]])

\* what RegisterClickHouseEntry does to the entry once the options are applied:
\* the description of an entry left without one, and the gorm configs
Finalize(applied) ==
    LET described == IF Len(applied.entryDescription) < 1
                     THEN [applied EXCEPT !.entryDescription = GeneratedDescription(applied)]
                     ELSE applied
    IN [described EXCEPT !.GormConfigMap = GormConfigs(described, 1, << >>)]

\* RegisterClickHouseEntry up to (not including) GlobalAppCtx.AddEntry
BuildEntry(v, os) == Finalize(ApplyOptions(DefaultEntry(v), os))

MapPut(m, k, x) == [n \in DOMAIN m \cup {k} |-> IF n = k THEN x ELSE m[n]]

MapDelete(m, k) == [n \in DOMAIN m \ {k} |-> m[n]]

----------------------------------------------------------------------------
(* The global registry, rkentry.GlobalAppCtx.  A stored entry is kept as   *)
(* [goType, type, name, id]: its Go type, what GetType() and GetName()     *)
(* return, and its identity (the pointer).                                 *)

EntryRef(goType, type, name, id) ==
    [ goType |-> goType, type |-> type, name |-> name, id |-> id ]

\* a nil rkentry.Entry
NilEntry == EntryRef(Nil, "", "", 0)

\* a nil *ClickHouseEntry
NilRef == 0

\* v2 keeps entries by (type, name), v1 by name
RegistryKey(v, type, name) == IF v = "v2" THEN <<type, name>> ELSE <<name>>

AddEntry(v, reg, e) == MapPut(reg, RegistryKey(v, e.type, e.name), e)

RemoveEntry(v, reg, type, name) == MapDelete(reg, RegistryKey(v, type, name))

GetEntry(v, reg, type, name) ==
    IF RegistryKey(v, type, name) \in DOMAIN reg
    THEN reg[RegistryKey(v, type, name)]
    ELSE NilEntry

\* mutant: the entry found is returned without the type assertion
GetClickHouseEntry_NoTypeAssertion(v, reg, name) ==
    GetEntry(v, reg, ClickHouseEntryType(v), name).id

\* GetClickHouseEntry: the registry lookup and the type assertion
GetClickHouseEntry(v, reg, name) ==
    LET raw == GetEntry(v, reg, ClickHouseEntryType(v), name)
    IN IF raw # NilEntry /\ raw.goType = "*ClickHouseEntry" THEN raw.id ELSE NilRef

\* the reference under which RegisterClickHouseEntry adds the entry e
RefOf(e, id) == EntryRef("*ClickHouseEntry", e.entryType, e.entryName, id)

RegOp(op, v, e) == [ op |-> op, key |-> RegistryKey(v, e.type, e.name), e |-> e ]


----------------------------------------------------------------------------
(* The ORM as the entry sees it *)

\* a nil *gorm.DB, and the value a Go map yields for a missing key
NilDB == 0

\* what the environment lets happen to one descriptor's steps:
\*   "openFail"  gorm.Open of the server connection (auto-create) fails
\*   "execFail"  the CREATE DATABASE statement fails
\*   "connFail"  gorm.Open of the named connection fails
Outcomes == {"ok", "openFail", "execFail", "connFail"}

\* fmt.Sprintf("tcp://%s?%s", addr, strings.Join(params, "&")): the DSN is
\* kept as its parts, the address and the "&"-separated parameters in order
Dsn(addr, params) == [ addr |-> addr, params |-> params ]

\* db.DB(): the *sql.DB behind a handle, or an error when the handle's
\* connection pool is not one (native = FALSE)
DBErr(cs, db) == ~cs[db].native

\* closeDB: inner, _ := db.DB(); inner.Close() when inner is not nil.  Close
\* marks the *sql.DB closed whether or not it reports an error
closeDB(cs, db) ==
    IF db # NilDB /\ ~DBErr(cs, db) THEN [cs EXCEPT ![db].closed = TRUE] ELSE cs

\* a successful gorm.Open(clickhouse.Open(dsn), config): one more connection,
\* whose pool is a *sql.DB; the handle is its index.  plugins: the plugins
\* installed on the handle; the configs the entry builds give gorm.Open none
OpenConn(cs, kind, name, dsn, config) ==
    Append(cs, [ kind |-> kind, db |-> name, dsn |-> dsn, config |-> config,
                 native |-> TRUE, closed |-> FALSE, plugins |-> << >> ])

LogStep(lg, call, i, step, ok, db) ==
    Append(lg, [ call |-> call, idx |-> i, step |-> step, ok |-> ok, db |-> db ])

\* the body of the auto-create block: open the server connection (a DSN
\* without a database name), CREATE DATABASE IF NOT EXISTS, and in v2 close
\* the connection.  st = [map, conns, log, err]; yields st after the block
CreateDatabase(v, e, d, i, call, out, st) ==
    LET dsn == Dsn(e.Addr, <<e.User, e.pass>>)
    IN IF out = "openFail"
       THEN \* v2 calls closeDB on the handle of the failed Open: no connection
            [st EXCEPT !.log = LogStep(@, call, i, "autoCreate", FALSE, NilDB),
                       !.err = TRUE]
       ELSE LET opened == OpenConn(st.conns, "server", d.name, dsn, e.GormConfigMap[d.name])
                db == Len(opened)
                after == IF v = "v2" THEN closeDB(opened, db) ELSE opened
            IN [st EXCEPT !.conns = after,
                          !.log = LogStep(@, call, i, "autoCreate",
                                          out # "execFail", db),
                          !.err = (out = "execFail")]

\* mutant: the auto-create block runs for every descriptor
AutoCreate_Unconditional(v, e, d, i, call, out, st) ==
    CreateDatabase(v, e, d, i, call, out, st)

\* mutant: the auto-create block forgets the dry-run flag
AutoCreate_IgnoresDryRun(v, e, d, i, call, out, st) ==
    IF d.autoCreate THEN CreateDatabase(v, e, d, i, call, out, st) ELSE st

\* the first block of the loop body of connect: "1: create db if missing"
AutoCreate(v, e, d, i, call, out, st) ==
    IF ~d.dryRun /\ d.autoCreate
    THEN CreateDatabase(v, e, d, i, call, out, st)
    ELSE st

\* mutant: the named connection is opened but its handle is not stored
ConnectNamed_DropsHandle(v, e, d, i, call, out, st) ==
    LET dsn == Dsn(e.Addr, <<d.name, e.User, e.pass>> \o d.params)
    IN IF out = "connFail"
       THEN [st EXCEPT !.log = LogStep(@, call, i, "connect", FALSE, NilDB),
                       !.err = TRUE]
       ELSE LET opened == OpenConn(st.conns, "named", d.name, dsn, e.GormConfigMap[d.name])
            IN [st EXCEPT !.conns = opened,
                          !.log = LogStep(@, call, i, "connect", TRUE, Len(opened))]

\* the second block of the loop body: open the named connection and store it
ConnectNamed(v, e, d, i, call, out, st) ==
    LET dsn == Dsn(e.Addr, <<d.name, e.User, e.pass>> \o d.params)
    IN IF out = "connFail"
       THEN [st EXCEPT !.log = LogStep(@, call, i, "connect", FALSE, NilDB),
                       !.err = TRUE]
       ELSE LET opened == OpenConn(st.conns, "named", d.name, dsn, e.GormConfigMap[d.name])
                db == Len(opened)
            IN [st EXCEPT !.conns = opened,
                          !.map = MapPut(@, d.name, db),
                          !.log = LogStep(@, call, i, "connect", TRUE, db)]

\* connect: the loop over innerDbList from descriptor i on; the first error returns
RECURSIVE connect(_, _, _, _, _, _)
connect(v, e, i, call, outs, st) ==
    IF i > Len(e.innerDbList) THEN st
    ELSE LET d == e.innerDbList[i]
             created == AutoCreate(v, e, d, i, call, outs[i], st)
         IN IF created.err THEN created
            ELSE LET connected == ConnectNamed(v, e, d, i, call, outs[i], created)
                 IN IF connected.err THEN connected
                    ELSE connect(v, e, i + 1, call, outs, connected)

\* mutant: the message carries the password instead of "****"
ShutdownMessage_LeaksPass(e) ==
    "failed to connect to database at " \o e.User \o ":" \o e.pass \o "@" \o e.Addr

\* the error handed to ShutdownWithError by Bootstrap
ShutdownMessage(e) ==
    "failed to connect to database at " \o e.User \o ":" \o "****" \o "@" \o e.Addr

\* GetDB: a map lookup, nil for a missing key
GetDB(e, name) == IF name \in DOMAIN e.GormDbMap THEN e.GormDbMap[name] ELSE NilDB

\* db.Ping() on the *sql.DB of handle db; `down` are the handles whose server
\* does not answer; a closed *sql.DB never answers
PingOk(cs, db, down) == ~cs[db].closed /\ db \notin down

\* one iteration of IsHealthy: DB() and Ping() both without error
HandleHealthy(cs, db, down) == ~DBErr(cs, db) /\ PingOk(cs, db, down)

\* mutant: only the first handle of the iteration is probed
IsHealthy_FirstHandleOnly(e, cs, order, down) ==
    order = << >> \/ HandleHealthy(cs, e.GormDbMap[Head(order)], down)

\* IsHealthy: the loop over GormDbMap in the iteration order `order` (a
\* sequence of the map's keys), returning false at the first failing handle
RECURSIVE IsHealthy(_, _, _, _)
IsHealthy(e, cs, order, down) ==
    IF order = << >> THEN TRUE
    ELSE IF ~HandleHealthy(cs, e.GormDbMap[Head(order)], down) THEN FALSE
    ELSE IsHealthy(e, cs, Tail(order), down)

\* mutant: the password field is exported to JSON
String_WithPass(v, e) ==
    "{\"user\":\"" \o e.User \o "\",\"pass\":\"" \o e.pass \o "\"}"

\* json.Marshal(entry): v1 exports EntryName, EntryType (no json tag), User
\* and Addr; v2 exports nothing.  pass is unexported in both
String(v, e) ==
    IF v = "v1"
    THEN "{\"EntryName\":\"" \o e.entryName \o "\",\"EntryType\":\"" \o e.entryType
            \o "\",\"user\":\"" \o e.User \o "\",\"addr\":\"" \o e.Addr \o "\"}"
    ELSE "{}"

\* Interrupt: v2 closes every handle of GormDbMap in iteration order `order`,
\* ignoring what Close returns; v1 only logs
\* `closeErrs` are the handles whose Close reports an error
RECURSIVE CloseAll(_, _, _, _)
CloseAll(e, cs, order, closeErrs) ==
    IF order = << >> THEN cs
    ELSE CloseAll(e, closeDB(cs, e.GormDbMap[Head(order)]), Tail(order), closeErrs)

InterruptConns(v, e, cs, order, closeErrs) ==
    IF v = "v2" THEN CloseAll(e, cs, order, closeErrs) ELSE cs


----------------------------------------------------------------------------
(* Inputs of the lifecycle specification *)

SeqsUpTo(S, n) == UNION { [1..k -> S] : k \in 0..n }

\* the iteration orders a Go map range may take over the key set S
Orders(S) ==
    { s \in [1..Cardinality(S) -> S] : \A i, j \in DOMAIN s : i # j => s[i] # s[j] }

\* extra connection parameters of a declared database
ParamsOf(name) == IF name = "b" THEN <<"read_timeout=10">> ELSE << >>

DbOptions ==
    { OptDatabase(n, dr, ac, ParamsOf(n)) : n \in DbNames, dr \in BOOLEAN, ac \in BOOLEAN }

\* the credential options: the default user and address, or given ones
CredLists ==
    { <<OptPass("pw1")>>, <<OptUser("u1"), OptPass("pw2"), OptAddr("h1:9000")>> }

\* database names matter only up to renaming: "b" is declared after "a"
Canonical(d) ==
    \A i \in DOMAIN d : d[i].val = "b" => \E j \in 1..(i - 1) : d[j].val = "a"

DbLists == { d \in SeqsUpTo(DbOptions, MaxDbs) : Canonical(d) }

LifecycleOpts == { c \o d : c \in CredLists, d \in DbLists }

\* where and how the environment makes one Bootstrap fail (at = 0: nowhere)
FailurePlans(n) ==
    { [at |-> 0, how |-> "ok"] }
        \cup { [at |-> k, how |-> h] : k \in 1..n, h \in Outcomes \ {"ok"} }

OutcomesOf(plan, n) == [i \in 1..n |-> IF i = plan.at THEN plan.how ELSE "ok"]

Ret(op, arg, val) == [ op |-> op, arg |-> arg, val |-> val ]

\* a logger entry's zap configuration: LoggerConfig.Encoding, .OutputPaths and
\* whether LumberjackConfig is set
ZapConf(encoding, outputPaths, lumberjack) ==
    [ Encoding |-> encoding, OutputPaths |-> outputPaths, Lumberjack |-> lumberjack ]

\* the logger entries the host has registered: the default one and "zap1"
LoggerEntries == [n \in {"default", "zap1"} |-> ZapConf("console", <<"stdout">>, FALSE)]

\* the environment of a process that sets none of the four variables
NoEnv == [ realm |-> "", region |-> "", az |-> "", domain |-> "" ]

----------------------------------------------------------------------------
(* Lifecycle specification *)

Init ==
    /\ variant \in Variants
    /\ phase = "new"
    /\ opts = << >>
    /\ entry = ZeroEntry
    /\ registry = << >>
    /\ regOps = << >>
    /\ env = NoEnv
    /\ bootConfig = << >>
    /\ res = << >>
    /\ loggerEntries = LoggerEntries
    /\ conns = << >>
    /\ log = << >>
    /\ shutdowns = << >>
    /\ calls = [ boot |-> 0, intr |-> 0 ]
    /\ ret = Ret("none", "", "")

\* RegisterClickHouseEntry(opts...): build the entry, add it to the registry
RegisterClickHouseEntry ==
    /\ phase = "new"
    /\ \E os \in LifecycleOpts :
        /\ opts' = os
        /\ entry' = BuildEntry(variant, os)
        /\ registry' = AddEntry(variant, registry, RefOf(entry', Len(regOps) + 1))
        /\ regOps' = Append(regOps, RegOp("Add", variant, RefOf(entry', Len(regOps) + 1)))
        /\ ret' = Ret("Register", "", entry'.entryName)
    /\ phase' = "registered"
    /\ UNCHANGED <<variant, env, bootConfig, res, loggerEntries, conns, log, shutdowns, calls>>

\* Bootstrap: connect(), and ShutdownWithError when connect returns an error
Bootstrap ==
    /\ phase = "registered"
    /\ calls.boot < MaxBootstraps
    /\ \E plan \in FailurePlans(Len(entry.innerDbList)) :
        LET call == calls.boot + 1
            outs == OutcomesOf(plan, Len(entry.innerDbList))
            st == connect(variant, entry, 1, call, outs,
                          [ map |-> entry.GormDbMap, conns |-> conns,
                            log |-> log, err |-> FALSE ])
        IN /\ entry' = [entry EXCEPT !.GormDbMap = st.map]
           /\ conns' = st.conns
           /\ log' = st.log
           /\ calls' = [calls EXCEPT !.boot = call]
           /\ IF st.err
              THEN /\ shutdowns' = Append(shutdowns, ShutdownMessage(entry))
                   /\ phase' = "halted"
              ELSE UNCHANGED <<shutdowns, phase>>
           /\ ret' = Ret("Bootstrap", call, "")
    /\ UNCHANGED <<variant, opts, registry, regOps, env, bootConfig, res, loggerEntries>>

\* Interrupt
Interrupt ==
    /\ phase = "registered"
    /\ calls.intr < MaxInterrupts
    /\ \E order \in Orders(DOMAIN entry.GormDbMap) :
       \E closeErrs \in SUBSET { entry.GormDbMap[n] : n \in DOMAIN entry.GormDbMap } :
        /\ conns' = InterruptConns(variant, entry, conns, order, closeErrs)
        /\ ret' = Ret("Interrupt", calls.intr + 1, "")
    /\ calls' = [calls EXCEPT !.intr = @ + 1]
    /\ UNCHANGED <<variant, phase, opts, entry, registry, regOps, env, bootConfig, res, loggerEntries, log, shutdowns>>

\* IsHealthy, with the servers of the handles in `down` not answering
IsHealthyCall ==
    /\ phase = "registered"
    /\ \E order \in Orders(DOMAIN entry.GormDbMap) :
       \E down \in SUBSET { entry.GormDbMap[n] : n \in DOMAIN entry.GormDbMap } :
        ret' = Ret("IsHealthy", down, IsHealthy(entry, conns, order, down))
    /\ UNCHANGED <<variant, phase, opts, entry, registry, regOps, env, bootConfig, res, loggerEntries, conns, log, shutdowns, calls>>

\* GetDB(name)
GetDBCall ==
    /\ phase = "registered"
    /\ \E name \in DbNames \cup {"zz"} :
        ret' = Ret("GetDB", name, GetDB(entry, name))
    /\ UNCHANGED <<variant, phase, opts, entry, registry, regOps, env, bootConfig, res, loggerEntries, conns, log, shutdowns, calls>>

\* String()
StringCall ==
    /\ phase = "registered"
    /\ ret' = Ret("String", "", String(variant, entry))
    /\ UNCHANGED <<variant, phase, opts, entry, registry, regOps, env, bootConfig, res, loggerEntries, conns, log, shutdowns, calls>>

Next ==
    \/ RegisterClickHouseEntry
    \/ Bootstrap
    \/ Interrupt
    \/ IsHealthyCall
    \/ GetDBCall
    \/ StringCall

Spec == Init /\ [][Next]_vars


----------------------------------------------------------------------------
(* Vocabulary of the properties *)

\* the names the entry's descriptors declare
Declared == { entry.innerDbList[i].name : i \in DOMAIN entry.innerDbList }

\* the handles of the handle map
Handles == { entry.GormDbMap[n] : n \in DOMAIN entry.GormDbMap }

\* the descriptor a logged step belongs to
DescOf(ev) == entry.innerDbList[ev.idx]

WantsAutoCreate(d) == ~d.dryRun /\ d.autoCreate

\* the option list with every WithPass value replaced by p
SwapPass(os, p) ==
    [i \in DOMAIN os |-> IF os[i].kind = "WithPass" THEN [os[i] EXCEPT !.val = p] ELSE os[i]]

\* the entry registered from the option list that differs only in WithPass,
\* taken through the same lifecycle
Twin(p) == [BuildEntry(variant, SwapPass(opts, p)) EXCEPT !.GormDbMap = entry.GormDbMap]

Registered == phase \in {"registered", "halted"}

\* the last Bootstrap call failed
BootstrapFailed == log # << >> /\ ~log[Len(log)].ok

\* the handle opened by the connect step log[k] is the one stored under its
\* descriptor's name, unless a later connect step stored one under that name
StoredUnlessReplaced(k) ==
    \/ GetDB(entry, DescOf(log[k]).name) = log[k].db
    \/ \E k2 \in (k + 1)..Len(log) :
          /\ log[k2].step = "connect" /\ log[k2].ok
          /\ DescOf(log[k2]).name = DescOf(log[k]).name

----------------------------------------------------------------------------
(* C1 *)

\* one step follows another of the same call only as connect() orders them:
\* auto-create then connect of one descriptor, or connect of descriptor i
\* then the first step of descriptor i + 1, and only after a success
FollowsInOrder(prev, ev) ==
    /\ prev.ok
    /\ \/ prev.idx = ev.idx /\ prev.step = "autoCreate" /\ ev.step = "connect"
       \/ prev.idx + 1 = ev.idx /\ prev.step = "connect"

\* C1: Bootstrap takes the descriptors in declared order, one at a time; the
\* auto-create step (a server connection whose DSN names no database) is
\* taken for a descriptor iff dryRun = false and autoCreate = true, and comes
\* right before the descriptor's named connection, whose handle is stored in
\* the handle map under the descriptor's name.
C1_StepsInDeclaredOrder ==
    \A k \in DOMAIN log :
        LET ev == log[k]
            d == DescOf(ev)
            first == k = 1 \/ log[k - 1].call # ev.call
            afterCreate == ~first /\ log[k - 1].step = "autoCreate"
                              /\ log[k - 1].idx = ev.idx
        IN /\ first => ev.idx = 1
           /\ ~first => FollowsInOrder(log[k - 1], ev)
           /\ ev.step = "autoCreate" =>
                /\ WantsAutoCreate(d)
                /\ ev.db # NilDB =>
                     /\ conns[ev.db].kind = "server"
                     /\ conns[ev.db].dsn.params = <<entry.User, entry.pass>>
           /\ ev.step = "connect" =>
                /\ WantsAutoCreate(d) <=> afterCreate
                /\ ev.ok =>
                     /\ conns[ev.db].kind = "named"
                     /\ conns[ev.db].dsn.params[1] = d.name
                     /\ StoredUnlessReplaced(k)

\* a successful Bootstrap of three descriptors of which one is auto-created
\* and one is a dry run
C1_Witness ==
    /\ ret.op = "Bootstrap" /\ phase = "registered"
    /\ Len(entry.innerDbList) = 3
    /\ \E i, j \in DOMAIN entry.innerDbList :
          /\ WantsAutoCreate(entry.innerDbList[i]) /\ entry.innerDbList[j].dryRun
    /\ \E k \in DOMAIN log : log[k].step = "autoCreate" /\ log[k].ok
    /\ log[Len(log)].idx = 3 /\ log[Len(log)].ok

----------------------------------------------------------------------------
(* C2 *)

\* C2: when a step of the descriptor at position k fails, no step is taken
\* for a later descriptor, no handle is stored for descriptor k, and every
\* handle stored for a descriptor before k is still in the handle map and
\* still open.
C2_FailureKeepsEarlierHandles ==
    phase = "halted" =>
        LET last == log[Len(log)]
            mine == { j \in DOMAIN log : log[j].call = last.call }
        IN /\ ~last.ok
           /\ \A j \in mine : log[j].idx <= last.idx
           /\ \A j \in mine : log[j].idx = last.idx => log[j].db \notin Handles
           /\ \A j \in mine :
                log[j].idx < last.idx /\ log[j].step = "connect" =>
                    /\ log[j].db \in Handles
                    /\ ~conns[log[j].db].closed

----------------------------------------------------------------------------
(* C3 *)

\* C3: a failing auto-create or connect step makes Bootstrap, which returns
\* nothing, trigger the process shutdown, exactly once, and the message is
\* made of the user,
\* "****" and the address only: the entry registered with any other password
\* gets the same message.
C3_ShutdownOnceRedacted ==
    /\ BootstrapFailed <=> phase = "halted"
    /\ Len(shutdowns) = (IF BootstrapFailed THEN 1 ELSE 0)
    /\ BootstrapFailed =>
         /\ ret = Ret("Bootstrap", calls.boot, "")
         /\ shutdowns[1] = "failed to connect to database at "
                              \o entry.User \o ":****@" \o entry.Addr
         /\ \A p \in Passwords : shutdowns[1] = ShutdownMessage(Twin(p))

\* an auto-create step failed for an entry with a password
C3_Witness ==
    /\ phase = "halted"
    /\ entry.pass # ""
    /\ log[Len(log)].step = "autoCreate"
    /\ Len(shutdowns) = 1

----------------------------------------------------------------------------
(* C4 *)

\* C4: in every state of a registered entry String() is the same text as for
\* the entry registered with any other WithPass value, and what String()
\* returned is that text.
C4_StringHidesPassword ==
    Registered =>
        \A p \in Passwords :
            /\ String(variant, Twin(p)) = String(variant, entry)
            /\ ret.op = "String" => ret.val = String(variant, Twin(p))

\* String() called on a bootstrapped, interrupted entry that has a password
C4_Witness ==
    /\ ret.op = "String"
    /\ entry.pass = "pw2"
    /\ calls.boot >= 1 /\ calls.intr >= 1
    /\ Twin("pw1").pass = "pw1"

----------------------------------------------------------------------------
(* C5 *)

\* C5: after a Bootstrap whose steps all succeeded GetDB returns a handle for
\* every declared name and nil for any other name, and IsHealthy() is true
\* whenever every handle's probe answers -- as it does right after Bootstrap
\* with every server up.
C5_BootstrapGivesHandles ==
    (phase = "registered" /\ calls.boot >= 1) =>
        /\ \A n \in Declared : GetDB(entry, n) # NilDB
        /\ \A n \in (DbNames \cup {"", "zz"}) \ Declared : GetDB(entry, n) = NilDB
        /\ ret.op = "GetDB" => (ret.val # NilDB <=> ret.arg \in Declared)
        /\ \A order \in Orders(DOMAIN entry.GormDbMap) :
             /\ \A down \in SUBSET Handles :
                    (\A h \in Handles :
                        conns[h].native /\ ~conns[h].closed /\ h \notin down)
                        => IsHealthy(entry, conns, order, down)
             /\ ret.op = "Bootstrap" => IsHealthy(entry, conns, order, {})

\* a successful Bootstrap of an entry that declares both names
C5_Witness ==
    /\ ret.op = "Bootstrap" /\ phase = "registered"
    /\ Declared = {"a", "b"}
    /\ GetDB(entry, "a") # NilDB /\ GetDB(entry, "b") # NilDB

----------------------------------------------------------------------------
(* C6 *)

\* C6 as claimed: for a descriptor declared with dryRun = true Bootstrap
\* opens no connection and stores no handle.
C6_DryRunOpensNothing ==
    \A k \in DOMAIN log : DescOf(log[k]).dryRun => log[k].db = NilDB /\ ~log[k].ok

\* C6 as amended: for a descriptor declared with dryRun = true Bootstrap never
\* takes the auto-create step (no server connection without a database name,
\* no CREATE DATABASE); it does open the descriptor's named connection and
\* store its handle under the descriptor's name.
C6_DryRunSkipsAutoCreateOnly ==
    /\ \A k \in DOMAIN log :
          DescOf(log[k]).dryRun =>
              /\ log[k].step = "connect"
              /\ log[k].ok => conns[log[k].db].kind = "named"
    /\ (ret.op = "Bootstrap" /\ phase = "registered") =>
          \A i \in DOMAIN entry.innerDbList :
              entry.innerDbList[i].dryRun =>
                  \E k \in DOMAIN log :
                      /\ log[k].call = calls.boot /\ log[k].idx = i
                      /\ log[k].step = "connect" /\ log[k].ok
                      /\ StoredUnlessReplaced(k)

\* a successful Bootstrap of a dry-run descriptor that asks for auto-create
C6_Witness ==
    /\ ret.op = "Bootstrap" /\ phase = "registered"
    /\ \E i \in DOMAIN entry.innerDbList :
          /\ entry.innerDbList[i].dryRun /\ entry.innerDbList[i].autoCreate
          /\ GetDB(entry, entry.innerDbList[i].name) # NilDB


----------------------------------------------------------------------------
(* C7 *)

\* C7: Interrupt closes every handle of the handle map, whatever Close
\* reports for any of them: once Interrupt has returned no handle of the
\* handle map is open.
C7_InterruptClosesEveryHandle ==
    ret.op = "Interrupt" => \A h \in Handles : conns[h].closed

----------------------------------------------------------------------------
(* C8 *)

\* C8: a second Interrupt, or an Interrupt of an entry never bootstrapped,
\* neither fails nor shuts the process down, and leaves the entry as the
\* first Interrupt left it: the same handle map, every handle closed.
C8_InterruptIdempotent ==
    [][ (calls'.intr = calls.intr + 1 /\ (ret.op = "Interrupt" \/ calls.boot = 0)) =>
            /\ entry' = entry
            /\ conns' = conns
            /\ phase' = "registered"
            /\ shutdowns' = shutdowns
            /\ \A h \in Handles : conns'[h].closed ]_vars

----------------------------------------------------------------------------
(* C9 *)

\* C9: IsHealthy() is true iff every handle of the handle map has a native
\* connection that answers the probe; an empty handle map is healthy; and a
\* failure is reported as false only: no shutdown, the entry stays as it was.
C9_HealthyIffAllAnswer ==
    ret.op = "IsHealthy" =>
        /\ ret.val <=>
              \A h \in Handles :
                  conns[h].native /\ ~conns[h].closed /\ h \notin ret.arg
        /\ Handles = {} => ret.val
        /\ phase = "registered"
        /\ shutdowns = << >>

\* IsHealthy() answered false for an entry with two handles of which
\* one answers: the one whose server is up
C9_Witness ==
    /\ ret.op = "IsHealthy" /\ ~ret.val
    /\ Cardinality(Handles) = 2
    /\ \E h \in Handles : ~conns[h].closed /\ h \notin ret.arg
    /\ \E h \in Handles : ~conns[h].closed /\ h \in ret.arg


----------------------------------------------------------------------------
(* Option-builder specification: RegisterClickHouseEntry taken one option  *)
(* at a time, over every mutator and its empty and non-empty arguments.    *)

BuilderNames == {"", "ut-entry"}
BuilderDescriptions == {"", "ut-description"}
BuilderUsers == {"", "u1"}
BuilderPasswords == {"", "pw1"}
BuilderAddrs == {"", "h1:9000"}
BuilderLoggers == {NilLogger, Logger("custom", "Info", 100, TRUE)}
BuilderPlugins == {Nil, "prom"}

InitOpts ==
    /\ variant \in Variants
    /\ phase = "building"
    /\ opts = << >>
    /\ entry = DefaultEntry(variant)
    /\ registry = << >>
    /\ regOps = << >>
    /\ env = NoEnv
    /\ bootConfig = << >>
    /\ res = << >>
    /\ loggerEntries = LoggerEntries
    /\ conns = << >>
    /\ log = << >>
    /\ shutdowns = << >>
    /\ calls = [ boot |-> 0, intr |-> 0 ]
    /\ ret = Ret("none", "", "")

\* opts[i](entry) for the next option o of the list
Apply(o) ==
    /\ Len(opts) < MaxOpts
    /\ opts' = Append(opts, o)
    /\ entry' = ApplyOption(entry, o)
    /\ ret' = Ret(o.kind, o.val, "")
    /\ UNCHANGED <<variant, phase, registry, regOps, env, bootConfig, res, loggerEntries, conns, log, shutdowns, calls>>

ApplyWithName ==
    /\ phase = "building"
    /\ \E name \in BuilderNames : Apply(OptName(name))

ApplyWithDescription ==
    /\ phase = "building"
    /\ \E d \in BuilderDescriptions : Apply(OptDescription(d))

ApplyWithUser ==
    /\ phase = "building"
    /\ \E user \in BuilderUsers : Apply(OptUser(user))

ApplyWithPass ==
    /\ phase = "building"
    /\ \E pass \in BuilderPasswords : Apply(OptPass(pass))

ApplyWithAddr ==
    /\ phase = "building"
    /\ \E addr \in BuilderAddrs : Apply(OptAddr(addr))

\* WithLogger (v2) / WithZapLoggerEntry (v1)
ApplyWithLogger ==
    /\ phase = "building"
    /\ \E logger \in BuilderLoggers : Apply(OptLogger(logger))

ApplyWithDatabase ==
    /\ phase = "building"
    /\ \E name \in DbNames \cup {""}, dryRun \in BOOLEAN :
          Apply(OptDatabase(name, dryRun, ~dryRun, ParamsOf(name)))

\* WithPlugin exists in v2 only
ApplyWithPlugin ==
    /\ phase = "building"
    /\ variant = "v2"
    /\ \E name \in DbNames \cup {""}, plugin \in BuilderPlugins :
          Apply(OptPlugin(name, plugin))

\* the rest of RegisterClickHouseEntry, after the loop over the options
FinishRegister ==
    /\ phase = "building"
    /\ entry' = Finalize(entry)
    /\ registry' = AddEntry(variant, registry, RefOf(entry', Len(regOps) + 1))
    /\ regOps' = Append(regOps, RegOp("Add", variant, RefOf(entry', Len(regOps) + 1)))
    /\ phase' = "registered"
    /\ ret' = Ret("Register", "", entry'.entryName)
    /\ UNCHANGED <<variant, opts, env, bootConfig, res, loggerEntries, conns, log, shutdowns, calls>>

NextOpts ==
    \/ ApplyWithName
    \/ ApplyWithDescription
    \/ ApplyWithUser
    \/ ApplyWithPass
    \/ ApplyWithAddr
    \/ ApplyWithLogger
    \/ ApplyWithDatabase
    \/ ApplyWithPlugin
    \/ FinishRegister

SpecOpts == InitOpts /\ [][NextOpts]_vars

----------------------------------------------------------------------------
(* C10 *)

\* an option whose argument is the empty string or nil
EmptyValued(o) ==
    \/ o.kind = "WithLogger" /\ o.val = NilLogger
    \/ o.kind = "WithPlugin" /\ o.plugin = Nil
    \/ o.kind # "WithLogger" /\ o.val = ""

\* C10: every option mutator given an empty or nil value leaves the entry
\* as it was.
C10_EmptyValueChangesNothing ==
    [][ (Len(opts') = Len(opts) + 1 /\ EmptyValued(opts'[Len(opts')]))
            => entry' = entry ]_vars

----------------------------------------------------------------------------
(* C11 *)

\* the WithDatabase options of the option list that carry a name, in order
NamedDbOpts == SelectSeq(opts, LAMBDA o : o.kind = "WithDatabase" /\ o.val # "")

\* C11: the descriptor sequence is, in order, one descriptor per WithDatabase
\* option with a non-empty name (so a name declared twice has two
\* descriptors and an empty name none), and once the entry is registered the
\* key set of the configuration map is the set of descriptor names.
C11_DescriptorPerOptionConfigPerName ==
    /\ Len(entry.innerDbList) = Len(NamedDbOpts)
    /\ \A i \in DOMAIN entry.innerDbList :
          LET d == entry.innerDbList[i]
              o == NamedDbOpts[i]
          IN /\ d.name = o.val /\ d.dryRun = o.dryRun
             /\ d.autoCreate = o.autoCreate /\ d.params = o.params
    /\ phase = "registered" => DOMAIN entry.GormConfigMap = Declared

\* an entry registered from two declarations of one name and one of no name
C11_Witness ==
    /\ phase = "registered"
    /\ Len(opts) = 3 /\ Len(entry.innerDbList) = 2
    /\ entry.innerDbList[1].name = entry.innerDbList[2].name
    /\ \E i \in DOMAIN opts : opts[i].kind = "WithDatabase" /\ opts[i].val = ""
    /\ Cardinality(DOMAIN entry.GormConfigMap) = 1

----------------------------------------------------------------------------
(* C12 *)

\* the position in the option list of the option that declared descriptor i
OptionOf(i) ==
    CHOOSE p \in DOMAIN opts :
        /\ opts[p].kind = "WithDatabase" /\ opts[p].val # ""
        /\ Cardinality({ q \in 1..p : opts[q].kind = "WithDatabase" /\ opts[q].val # "" }) = i

\* the plugins that the options after position p give to the name n
PluginsGivenAfter(p, n) ==
    LET given == SelectSeq(SubSeq(opts, p + 1, Len(opts)),
                           LAMBDA o : o.kind = "WithPlugin" /\ o.val = n /\ o.plugin # Nil)
    IN [k \in DOMAIN given |-> given[k].plugin]

\* C12: a descriptor's plugins are exactly the plugins of the WithPlugin options
\* that name it and come after the WithDatabase option that declared it, in
\* order; and a WithPlugin option whose name no descriptor declared so far
\* bears leaves the entry unchanged.
C12_PluginOnlyOnEarlierDescriptor ==
    /\ [](\A i \in DOMAIN entry.innerDbList :
            entry.innerDbList[i].plugins
                = PluginsGivenAfter(OptionOf(i), entry.innerDbList[i].name))
    /\ [][ ( /\ Len(opts') = Len(opts) + 1
             /\ opts'[Len(opts')].kind = "WithPlugin"
             /\ opts'[Len(opts')].val \notin Declared )
            => entry' = entry ]_vars

\* a plugin given before its database is declared was dropped, the same
\* plugin given after it is attached
C12_Witness ==
    /\ Len(opts) = 3
    /\ opts[1].kind = "WithPlugin" /\ opts[1].plugin # Nil
    /\ opts[2].kind = "WithDatabase" /\ opts[2].val = opts[1].val
    /\ opts[3] = opts[1]
    /\ Len(entry.innerDbList) = 1
    /\ entry.innerDbList[1].plugins = <<opts[1].plugin>>

----------------------------------------------------------------------------
(* C13 *)

\* C13: an entry registered with no options has a non-empty name, type and
\* description, the user "default", the address "localhost:9000", an empty
\* handle map and an empty configuration map; and before the first Bootstrap
\* the handle map of any entry is empty.
C13_DefaultsAndNoHandles ==
    /\ (phase = "registered" /\ opts = << >>) =>
          /\ entry.entryName # "" /\ entry.entryType # ""
          /\ entry.entryDescription # ""
          /\ entry.User = "default"
          /\ entry.Addr = "localhost:9000"
          /\ entry.GormDbMap = << >>
          /\ entry.GormConfigMap = << >>
    /\ calls.boot = 0 => entry.GormDbMap = << >>

\* an entry registered with no options
C13_Witness ==
    /\ phase = "registered" /\ opts = << >>
    /\ ret.op = "Register" /\ ret.val = "ClickHouse"

----------------------------------------------------------------------------
(* Boot configuration: BootConfig, the parsed YAML *)

\* the logger declaration of a block
LoggerDecl(loggerEntry, level, encoding, outputPaths, slowThresholdMs, ignore) ==
    [ Entry |-> loggerEntry, Level |-> level, Encoding |-> encoding,
      OutputPaths |-> outputPaths, SlowThresholdMs |-> slowThresholdMs,
      IgnoreRecordNotFoundError |-> ignore ]

\* a database declaration of a block
DatabaseDecl(name, dryRun, autoCreate, prom, trace) ==
    [ Name |-> name, Params |-> << >>, DryRun |-> dryRun, AutoCreate |-> autoCreate,
      Plugins |-> [ Prom |-> [ Enabled |-> prom ], Trace |-> [ Enabled |-> trace ] ] ]

\* one block: BootConfigE (v2, with Domain) / the element struct (v1, with
\* Locale, kept as the sequence of its "::"-separated segments)
BootConfigE(enabled, name, domain, locale, databases, logger) ==
    [ Enabled |-> enabled, Name |-> name, Description |-> "",
      Domain |-> domain, Locale |-> locale,
      User |-> "", Pass |-> "pw1", Addr |-> "",
      Database |-> databases, Logger |-> logger ]

----------------------------------------------------------------------------
(* Locale and domain matching (rk-common, rk-entry) *)

\* the values of REALM, REGION, AZ and DOMAIN, in the order of the segments
EnvValues(e) == <<e.realm, e.region, e.az, e.domain>>

\* compare every segment from i on with its environment value; a wildcard
\* segment is not compared
RECURSIVE MatchSegments(_, _, _)
MatchSegments(tokens, values, i) ==
    IF i > Len(tokens) THEN TRUE
    ELSE IF tokens[i] # "*" /\ tokens[i] # values[i] THEN FALSE
    ELSE MatchSegments(tokens, values, i + 1)

\* mutant: only the domain segment is compared
MatchLocaleWithEnv_DomainOnly(locale, e) ==
    Len(locale) = 4 /\ (locale[4] = "*" \/ locale[4] = e.domain)

\* rkcommon.MatchLocaleWithEnv: split the locale with "::" into realm, region,
\* az and domain and compare them with the environment; a locale that does
\* not have four segments matches nothing
MatchLocaleWithEnv(locale, e) ==
    IF Len(locale) # 4 THEN FALSE ELSE MatchSegments(locale, EnvValues(e), 1)

\* rkentry.IsValidDomain: the single-segment matcher of v2; "" is a wildcard
IsValidDomain(domain, e) == domain = "" \/ domain = "*" \/ domain = e.domain

----------------------------------------------------------------------------
(* YAML registration *)

\* mutant: a later block of the same name always replaces the selected one
RECURSIVE FilterByDomain_LastWins(_, _, _, _)
FilterByDomain_LastWins(cfg, e, i, configMap) ==
    IF i > Len(cfg) THEN configMap
    ELSE IF ~cfg[i].Enabled \/ Len(cfg[i].Name) < 1 \/ ~IsValidDomain(cfg[i].Domain, e)
    THEN FilterByDomain_LastWins(cfg, e, i + 1, configMap)
    ELSE FilterByDomain_LastWins(cfg, e, i + 1, MapPut(configMap, cfg[i].Name, i))

\* "filter out based domain" (v2): the loop over the blocks from block i on
\* that fills configMap, name -> the selected block (kept as its position)
RECURSIVE FilterByDomain(_, _, _, _)
FilterByDomain(cfg, e, i, configMap) ==
    IF i > Len(cfg) THEN configMap
    ELSE IF ~cfg[i].Enabled \/ Len(cfg[i].Name) < 1
    THEN FilterByDomain(cfg, e, i + 1, configMap)
    ELSE IF ~IsValidDomain(cfg[i].Domain, e)
    THEN FilterByDomain(cfg, e, i + 1, configMap)
    ELSE IF cfg[i].Name \notin DOMAIN configMap
    THEN FilterByDomain(cfg, e, i + 1, MapPut(configMap, cfg[i].Name, i))
    ELSE IF cfg[i].Domain = "" \/ cfg[i].Domain = "*"
    THEN FilterByDomain(cfg, e, i + 1, configMap)
    ELSE FilterByDomain(cfg, e, i + 1, MapPut(configMap, cfg[i].Name, i))

\* mutant: every value but "info" falls back to Warn
LogLevelOf_InfoOrWarn(level) == IF level = "info" THEN "Info" ELSE "Warn"

\* "configure log level": the switch over logger.level, Warn being preset
LogLevelOf(level) ==
    CASE level = "info"   -> "Info"
      [] level = "warn"   -> "Warn"
      [] level = "error"  -> "Error"
      [] level = "silent" -> "Silent"
      [] OTHER            -> "Warn"

\* "configure slow threshold", in milliseconds, 5000 being preset
SlowThresholdOf(slowThresholdMs) ==
    IF slowThresholdMs > 0 THEN slowThresholdMs ELSE 5000

\* the Logger built for a block, around the zap logger `delegate`
YamlLogger(decl, delegate) ==
    Logger(delegate, LogLevelOf(decl.Level), SlowThresholdOf(decl.SlowThresholdMs),
           decl.IgnoreRecordNotFoundError)

\* "assign logger entry": the named logger entry, or the default one
LoggerEntryFor(les, name) == IF name \in DOMAIN les THEN name ELSE "default"

\* the block asks for its own encoding or output paths
OverridesZap(decl) == decl.Encoding = "json" \/ Len(decl.OutputPaths) > 0

\* the working directory, and the paths filepath.IsAbs accepts
WorkDir == "/wd"
AbsolutePaths == {"/var/log/db.log"}

toAbsPath(paths) ==
    [i \in DOMAIN paths |->
        IF paths[i] \in AbsolutePaths \/ paths[i] = "stdout" \/ paths[i] = "stderr"
        THEN paths[i]
        ELSE WorkDir \o "/" \o paths[i]]

\* what the override block writes into the logger entry it was given
OverrideZapConf(conf, decl) ==
    [conf EXCEPT !.Encoding = IF decl.Encoding = "json" THEN "json" ELSE @,
                 !.OutputPaths = IF Len(decl.OutputPaths) > 0
                                 THEN toAbsPath(decl.OutputPaths) ELSE @,
                 !.Lumberjack = TRUE]

RECURSIVE JoinPaths(_)
JoinPaths(paths) ==
    IF paths = << >> THEN "" ELSE Head(paths) \o "," \o JoinPaths(Tail(paths))

\* the zap logger NewZapLoggerWithConf builds from a configuration
NewZapLogger(conf) == "zap:" \o conf.Encoding \o ":" \o JoinPaths(conf.OutputPaths)

\* logger.WithOptions(zap.WithCaller(true))
WithCaller(zapLogger) == zapLogger \o "+caller"

\* plugins.NewTrace / plugins.NewProm of a plugin configuration
NewPlugin(kind, dbType, dbAddr, dbName) ==
    kind \o ":" \o dbType \o ":" \o dbAddr \o ":" \o dbName

\* "iterate database section": the options of the databases from i on
RECURSIVE DatabaseOptions(_, _, _)
DatabaseOptions(v, b, i) ==
    IF i > Len(b.Database) THEN << >>
    ELSE LET db == b.Database[i]
             trace == IF v = "v2" /\ db.Plugins.Trace.Enabled
                      THEN <<OptPlugin(db.Name, NewPlugin("trace", "postgresql", b.Addr, db.Name))>>
                      ELSE << >>
             prom == IF v = "v2" /\ db.Plugins.Prom.Enabled
                     THEN <<OptPlugin(db.Name, NewPlugin("prom", "clickhouse", b.Addr, db.Name))>>
                     ELSE << >>
         IN <<OptDatabase(db.Name, db.DryRun, db.AutoCreate, db.Params)>>
                \o trace \o prom \o DatabaseOptions(v, b, i + 1)

\* opts := []Option{...} of a block
YamlOptions(v, b, logger) ==
    << OptName(b.Name), OptDescription(b.Description), OptUser(b.User),
       OptPass(b.Pass), OptAddr(b.Addr), OptLogger(logger) >>
        \o DatabaseOptions(v, b, 1)

\* entry := RegisterClickHouseEntry(opts...); res[element.Name] = entry
\* st = [registry, regOps, res, loggerEntries, shutdowns, halted]
RegisterFromBlock(v, b, logger, st) ==
    LET e == BuildEntry(v, YamlOptions(v, b, logger))
        ref == RefOf(e, Len(st.regOps) + 1)
    IN [st EXCEPT !.registry = AddEntry(v, @, ref),
                  !.regOps = Append(@, RegOp("Add", v, ref)),
                  !.res = MapPut(@, b.Name, [ id |-> ref.id, entry |-> e ])]

\* the body of the loop over configMap (v2) for the block b: the Logger, the
\* logger entry and its override, then the registration.  zapErr: building
\* the overridden zap logger fails, which shuts the process down
RegisterElement(b, zapErr, st) ==
    LET lname == LoggerEntryFor(st.loggerEntries, b.Logger.Entry)
        les == IF OverridesZap(b.Logger)
               THEN [st.loggerEntries EXCEPT ![lname] = OverrideZapConf(@, b.Logger)]
               ELSE st.loggerEntries
        delegate == IF OverridesZap(b.Logger)
                    THEN WithCaller(NewZapLogger(les[lname]))
                    ELSE WithCaller(lname)
    IN IF OverridesZap(b.Logger) /\ zapErr
       THEN [st EXCEPT !.loggerEntries = les,
                       !.shutdowns = Append(@, "zap logger: " \o lname),
                       !.halted = TRUE]
       ELSE RegisterFromBlock("v2", b, YamlLogger(b.Logger, delegate),
                              [st EXCEPT !.loggerEntries = les])

\* for _, element := range configMap, in the iteration order `order`
RECURSIVE RegisterElements(_, _, _, _, _)
RegisterElements(cfg, configMap, order, zapErrs, st) ==
    IF order = << >> \/ st.halted THEN st
    ELSE RegisterElements(cfg, configMap, Tail(order), zapErrs,
            RegisterElement(cfg[configMap[Head(order)]], Head(order) \in zapErrs, st))

\* GetZapLoggerEntry(name) (v1): the named zap logger entry, or nil
GetZapLoggerEntry(les, name) ==
    IF name \in DOMAIN les THEN Logger(name, "", 0, FALSE) ELSE NilLogger

\* the loop of RegisterClickHouseEntriesWithConfig (v1) over the blocks from i on
RECURSIVE RegisterBlocks(_, _, _, _)
RegisterBlocks(cfg, e, i, st) ==
    IF i > Len(cfg) THEN st
    ELSE IF Len(cfg[i].Name) < 1 \/ ~MatchLocaleWithEnv(cfg[i].Locale, e)
    THEN RegisterBlocks(cfg, e, i + 1, st)
    ELSE RegisterBlocks(cfg, e, i + 1,
            RegisterFromBlock("v1", cfg[i],
                              GetZapLoggerEntry(st.loggerEntries, cfg[i].Logger.Entry), st))

----------------------------------------------------------------------------
(* Inputs of the YAML specification *)

YamlNames == {"", "n1", "n2"}
YamlDomains == {"", "*", "prod", "test"}
YamlLocales ==
    { <<"*", "*", "*", "*">>, <<"*", "*", "*", "prod">>, <<"*", "*", "*", "test">>, <<"">> }
YamlLevels == {"", "info", "warn", "error", "silent", "debug"}
YamlSlowThresholds == {-1, 0, 1, 200}

\* DOMAIN unset, or set to "prod"
Envs == { NoEnv, [NoEnv EXCEPT !.domain = "prod"] }

PlainLogger == LoggerDecl("", "", "", << >>, 0, FALSE)
PlainDatabase == DatabaseDecl("a", TRUE, FALSE, FALSE, FALSE)

\* blocks that differ in what the selection looks at
SelectionBlocks(v) ==
    IF v = "v2"
    THEN { BootConfigE(en, n, d, << >>, <<PlainDatabase>>, PlainLogger) :
              en \in BOOLEAN, n \in YamlNames, d \in YamlDomains }
    ELSE { BootConfigE(en, n, "", l, <<PlainDatabase>>, PlainLogger) :
              en \in BOOLEAN, n \in YamlNames, l \in YamlLocales }

\* blocks that apply everywhere and differ in their logger declaration
LoggerBlocks(v) ==
    IF v = "v2"
    THEN { BootConfigE(TRUE, "n1", "*", << >>, <<PlainDatabase>>,
                       LoggerDecl(le, lv, enc, paths, ms, ig)) :
              le \in {"", "zap1"}, lv \in YamlLevels, enc \in {"", "json"},
              paths \in {<< >>, <<"logs/db.log">>}, ms \in YamlSlowThresholds,
              ig \in BOOLEAN }
    ELSE { BootConfigE(TRUE, "n1", "", <<"*", "*", "*", "*">>, <<PlainDatabase>>,
                       LoggerDecl(le, "", "", << >>, 0, FALSE)) : le \in {"", "zap1"} }

\* blocks that apply everywhere and differ in their database declaration
DatabaseBlocks(v) ==
    IF v = "v2"
    THEN { [BootConfigE(TRUE, "n1", "*", << >>,
                        <<DatabaseDecl(n, FALSE, TRUE, prom, trace)>>, PlainLogger)
                EXCEPT !.Addr = addr] :
              n \in {"", "a"}, prom \in BOOLEAN, trace \in BOOLEAN,
              addr \in {"", "h1:9000"} }
    ELSE { BootConfigE(TRUE, "n1", "", <<"*", "*", "*", "*">>,
                       <<DatabaseDecl(n, FALSE, TRUE, FALSE, FALSE)>>, PlainLogger) :
              n \in {"", "a"} }

\* every block of a file names its own user, so that an entry tells its block
Stamp(f) == [i \in DOMAIN f |-> [f[i] EXCEPT !.User = "u" \o ToString(i)]]

\* the logger declarations that differ in the logger entry they name and in
\* what they override of it
ZapDecls ==
    { LoggerDecl(le, "", enc, paths, 0, FALSE) :
        le \in {"", "zap1"}, enc \in {"", "json"}, paths \in {<< >>, <<"logs/db.log">>} }

\* files of two blocks that apply everywhere, each with its logger declaration
SharedLoggerFiles(v) ==
    IF v = "v2"
    THEN { << BootConfigE(TRUE, "n1", "*", << >>, <<PlainDatabase>>, d1),
              BootConfigE(TRUE, "n2", "*", << >>, <<PlainDatabase>>, d2) >> :
              d1 \in ZapDecls, d2 \in ZapDecls }
    ELSE { }

YamlFiles(v) ==
    { Stamp(f) : f \in SeqsUpTo(SelectionBlocks(v), MaxBlocks) \cup SharedLoggerFiles(v) }
        \cup { Stamp(<<b>>) : b \in LoggerBlocks(v) \cup DatabaseBlocks(v) }

RegistryNames == {"n1", "n2"}

----------------------------------------------------------------------------
(* YAML specification: one boot configuration, registered in one           *)
(* environment, and looked up afterwards.                                  *)

InitYaml ==
    /\ variant \in Variants
    /\ phase = "config"
    /\ opts = << >>
    /\ entry = ZeroEntry
    /\ registry = << >>
    /\ regOps = << >>
    /\ env \in Envs
    /\ bootConfig \in YamlFiles(variant)
    /\ res = << >>
    /\ loggerEntries = LoggerEntries
    /\ conns = << >>
    /\ log = << >>
    /\ shutdowns = << >>
    /\ calls = [ boot |-> 0, intr |-> 0 ]
    /\ ret = Ret("none", "", "")

\* the state the registration loops thread
YamlState ==
    [ registry |-> registry, regOps |-> regOps, res |-> res,
      loggerEntries |-> loggerEntries, shutdowns |-> shutdowns, halted |-> FALSE ]

YamlDone(st) ==
    /\ registry' = st.registry
    /\ regOps' = st.regOps
    /\ res' = st.res
    /\ loggerEntries' = st.loggerEntries
    /\ shutdowns' = st.shutdowns
    /\ phase' = IF st.halted THEN "halted" ELSE "loaded"
    /\ ret' = Ret("RegisterYAML", "", DOMAIN st.res)
    /\ UNCHANGED <<variant, opts, entry, env, bootConfig, conns, log, calls>>

\* RegisterClickHouseEntryYAML (v2)
RegisterClickHouseEntryYAML ==
    /\ phase = "config"
    /\ variant = "v2"
    /\ LET configMap == FilterByDomain(bootConfig, env, 1, << >>)
       IN \E order \in Orders(DOMAIN configMap) :
          \E zapErrs \in SUBSET { n \in DOMAIN configMap :
                                    OverridesZap(bootConfig[configMap[n]].Logger) } :
              YamlDone(RegisterElements(bootConfig, configMap, order, zapErrs, YamlState))

\* RegisterClickHouseEntriesWithConfig (v1)
RegisterClickHouseEntriesWithConfig ==
    /\ phase = "config"
    /\ variant = "v1"
    /\ YamlDone(RegisterBlocks(bootConfig, env, 1, YamlState))

\* GetClickHouseEntry(name)
GetClickHouseEntryCall ==
    /\ phase \in {"loaded", "registry"}
    /\ \E name \in RegistryNames \cup {"zz"} :
          ret' = Ret("GetClickHouseEntry", name, GetClickHouseEntry(variant, registry, name))
    /\ UNCHANGED <<variant, phase, opts, entry, registry, regOps, env, bootConfig, res,
                   loggerEntries, conns, log, shutdowns, calls>>

NextYaml ==
    \/ RegisterClickHouseEntryYAML
    \/ RegisterClickHouseEntriesWithConfig
    \/ GetClickHouseEntryCall

SpecYaml == InitYaml /\ [][NextYaml]_vars

----------------------------------------------------------------------------
(* Vocabulary of the YAML properties *)

\* the block the entry returned under the name n was built from
SourceOf(n) == CHOOSE i \in DOMAIN bootConfig : bootConfig[i].User = res[n].entry.User

\* the block's locale (v1) or domain (v2) matches the environment
Matches(b) ==
    IF variant = "v2" THEN b.Domain \in {"", "*", env.domain}
    ELSE /\ Len(b.Locale) = 4
         /\ \A k \in 1..4 : b.Locale[k] \in {"*", EnvValues(env)[k]}

\* a block the registration has to take
Eligible(b) == b.Enabled /\ b.Name # "" /\ Matches(b)

Wildcard(b) == b.Domain \in {"", "*"}

\* the entries ever added to the registry under the name n
AddedAs(n) == { k \in DOMAIN regOps : regOps[k].op = "Add" /\ regOps[k].e.name = n }

----------------------------------------------------------------------------
(* C14 *)

\* C14: when one or more enabled blocks with a valid domain bear a name, the
\* YAML registration (v2) builds exactly one entry for the name; it is built
\* from a block with a non-wildcard domain if there is one, wherever it
\* stands in the file, and from the first wildcard block otherwise.
C14_MostSpecificBlockWins ==
    (variant = "v2" /\ phase = "loaded") =>
        \A n \in YamlNames \ {""} :
            LET E == { i \in DOMAIN bootConfig :
                          /\ bootConfig[i].Enabled /\ bootConfig[i].Name = n
                          /\ Matches(bootConfig[i]) }
            IN E # {} =>
                /\ n \in DOMAIN res
                /\ Cardinality(AddedAs(n)) = 1
                /\ SourceOf(n) \in E
                /\ (\E i \in E : ~Wildcard(bootConfig[i])) => ~Wildcard(bootConfig[SourceOf(n)])
                /\ (\A i \in E : Wildcard(bootConfig[i])) => \A i \in E : SourceOf(n) <= i

\* a wildcard block followed by a block of the same name for this domain:
\* the entry is built from the second
C14_Witness ==
    /\ variant = "v2" /\ phase = "loaded"
    /\ Len(bootConfig) = 2
    /\ bootConfig[1].Name = "n1" /\ bootConfig[2].Name = "n1"
    /\ bootConfig[1].Enabled /\ bootConfig[2].Enabled
    /\ bootConfig[1].Domain = "*" /\ bootConfig[2].Domain = "prod"
    /\ env.domain = "prod"
    /\ res["n1"].entry.User = "u2"

----------------------------------------------------------------------------
(* C15 *)

\* C15: a block that is disabled, has no name or does not match the
\* environment leaves no trace: every entry returned or added to the registry
\* comes from an enabled, named, matching block; a shutdown comes only from
\* such a block; and every such block's name is registered.
C15_SkippedBlocksLeaveNoTrace ==
    phase \in {"loaded", "halted"} =>
        /\ \A n \in DOMAIN res :
              Eligible(bootConfig[SourceOf(n)]) /\ bootConfig[SourceOf(n)].Name = n
        /\ \A k \in DOMAIN regOps :
              \E i \in DOMAIN bootConfig :
                  Eligible(bootConfig[i]) /\ bootConfig[i].Name = regOps[k].e.name
        /\ shutdowns # << >> =>
              \E i \in DOMAIN bootConfig :
                  Eligible(bootConfig[i]) /\ OverridesZap(bootConfig[i].Logger)
        /\ phase = "loaded" =>
              \A i \in DOMAIN bootConfig :
                  Eligible(bootConfig[i]) => bootConfig[i].Name \in DOMAIN res

----------------------------------------------------------------------------
(* C19 *)

\* C19: the Logger of an entry built from YAML (v2) has the minimum level
\* Info, Warn, Error or Silent for the level "info", "warn", "error" or
\* "silent" and Warn for any other, the slow-query threshold slowThresholdMs
\* when that is greater than 0 and 5000 ms otherwise, and the configured
\* ignore-record-not-found flag; the gorm configs embed that Logger.
C19_LoggerFromDeclaration ==
    (variant = "v2" /\ phase = "loaded") =>
        \A n \in DOMAIN res :
            LET decl == bootConfig[SourceOf(n)].Logger
                lg == res[n].entry.logger
            IN /\ decl.Level = "info" => lg.LogLevel = "Info"
               /\ decl.Level = "warn" => lg.LogLevel = "Warn"
               /\ decl.Level = "error" => lg.LogLevel = "Error"
               /\ decl.Level = "silent" => lg.LogLevel = "Silent"
               /\ decl.Level \notin {"info", "warn", "error", "silent"} => lg.LogLevel = "Warn"
               /\ decl.SlowThresholdMs > 0 => lg.SlowThreshold = decl.SlowThresholdMs
               /\ decl.SlowThresholdMs <= 0 => lg.SlowThreshold = 5000
               /\ lg.IgnoreRecordNotFoundError = decl.IgnoreRecordNotFoundError
               /\ \A d \in DOMAIN res[n].entry.GormConfigMap :
                     res[n].entry.GormConfigMap[d].Logger = lg

\* an entry built from a block that declares level "silent", 200 ms and the flag
C19_Witness ==
    /\ variant = "v2" /\ phase = "loaded"
    /\ \E n \in DOMAIN res :
          /\ bootConfig[SourceOf(n)].Logger.Level = "silent"
          /\ bootConfig[SourceOf(n)].Logger.SlowThresholdMs = 200
          /\ bootConfig[SourceOf(n)].Logger.IgnoreRecordNotFoundError
          /\ res[n].entry.logger.LogLevel = "Silent"
          /\ DOMAIN res[n].entry.GormConfigMap = {"a"}

----------------------------------------------------------------------------
(* Registry specification: entries of this and of other packages are       *)
(* registered and removed, and looked up by name.                          *)

\* the types entries of other packages report; one reports this package's
ForeignTypes(v) == {"OtherEntry", ClickHouseEntryType(v)}

InitRegistry ==
    /\ variant \in Variants
    /\ phase = "registry"
    /\ opts = << >>
    /\ entry = ZeroEntry
    /\ registry = << >>
    /\ regOps = << >>
    /\ env = NoEnv
    /\ bootConfig = << >>
    /\ res = << >>
    /\ loggerEntries = LoggerEntries
    /\ conns = << >>
    /\ log = << >>
    /\ shutdowns = << >>
    /\ calls = [ boot |-> 0, intr |-> 0 ]
    /\ ret = Ret("none", "", "")

\* RegisterClickHouseEntry(WithName(name))
RegisterNamed ==
    /\ phase = "registry"
    /\ Len(regOps) < MaxRegOps
    /\ \E name \in RegistryNames :
        LET os == <<OptName(name)>>
            ref == RefOf(BuildEntry(variant, os), Len(regOps) + 1)
        IN /\ opts' = os
           /\ entry' = BuildEntry(variant, os)
           /\ registry' = AddEntry(variant, registry, ref)
           /\ regOps' = Append(regOps, RegOp("Add", variant, ref))
           /\ ret' = Ret("Register", name, ref.id)
    /\ UNCHANGED <<variant, phase, env, bootConfig, res, loggerEntries,
                   conns, log, shutdowns, calls>>

\* GlobalAppCtx.AddEntry(e) for an entry e of another package
AddForeignEntry ==
    /\ phase = "registry"
    /\ Len(regOps) < MaxRegOps
    /\ \E name \in RegistryNames, type \in ForeignTypes(variant) :
        LET ref == EntryRef("*OtherEntry", type, name, Len(regOps) + 1)
        IN /\ registry' = AddEntry(variant, registry, ref)
           /\ regOps' = Append(regOps, RegOp("Add", variant, ref))
           /\ ret' = Ret("AddEntry", name, ref.id)
    /\ UNCHANGED <<variant, phase, opts, entry, env, bootConfig, res, loggerEntries,
                   conns, log, shutdowns, calls>>

\* GlobalAppCtx.RemoveEntry: of a name (v1), of an entry's type and name (v2)
RemoveEntryCall ==
    /\ phase = "registry"
    /\ Len(regOps) < MaxRegOps
    /\ \E name \in RegistryNames, type \in ForeignTypes(variant) :
        /\ registry' = RemoveEntry(variant, registry, type, name)
        /\ regOps' = Append(regOps, RegOp("Remove", variant, EntryRef(Nil, type, name, 0)))
        /\ ret' = Ret("RemoveEntry", name, "")
    /\ UNCHANGED <<variant, phase, opts, entry, env, bootConfig, res, loggerEntries,
                   conns, log, shutdowns, calls>>

NextRegistry ==
    \/ RegisterNamed
    \/ AddForeignEntry
    \/ RemoveEntryCall
    \/ GetClickHouseEntryCall

SpecRegistry == InitRegistry /\ [][NextRegistry]_vars

----------------------------------------------------------------------------
(* C16 *)

\* the registry calls made so far on the slot a ClickHouse entry of the name
\* n is kept in
CallsOn(n) ==
    { k \in DOMAIN regOps :
        regOps[k].key = RegistryKey(variant, ClickHouseEntryType(variant), n) }

\* the last of them
LastCallOn(n) == regOps[CHOOSE k \in CallsOn(n) : \A j \in CallsOn(n) : j <= k]

\* C16: GetClickHouseEntry(name) returns the entry most recently registered
\* in the slot of that name, provided it was not removed since and is a
\* ClickHouse entry, and nil otherwise: nothing registered, removed, or an
\* entry of another Go type.
C16_LookupReturnsLastRegistered ==
    ret.op = "GetClickHouseEntry" =>
        IF CallsOn(ret.arg) = {} THEN ret.val = NilRef
        ELSE IF LastCallOn(ret.arg).op = "Remove" THEN ret.val = NilRef
        ELSE IF LastCallOn(ret.arg).e.goType # "*ClickHouseEntry" THEN ret.val = NilRef
        ELSE ret.val = LastCallOn(ret.arg).e.id

\* an entry registered, removed and registered again under one name is found
\* as the second entry
C16_Witness ==
    /\ phase = "registry"
    /\ ret.op = "GetClickHouseEntry" /\ ret.arg = "n1" /\ ret.val = 3
    /\ Len(regOps) = 3
    /\ regOps[1].op = "Add" /\ regOps[1].e.goType = "*ClickHouseEntry"
    /\ regOps[2].op = "Remove" /\ regOps[2].key = regOps[1].key
    /\ regOps[3].op = "Add" /\ regOps[3].key = regOps[1].key

----------------------------------------------------------------------------
(* Locale specification: one block, any locale, any environment (v1) *)

LocaleSegments == {"*", "rk", "eu"}

\* well-formed locales, and locales with too few or too many segments
Locales ==
    [1..4 -> LocaleSegments] \cup { <<"">>, <<"*", "*", "*">>, <<"*", "*", "*", "*", "*">> }

LocaleEnvs ==
    { [ realm |-> r, region |-> g, az |-> a, domain |-> d ] :
        r \in {"", "rk"}, g \in {"", "eu"}, a \in {"", "eu"}, d \in {"", "rk"} }

InitLocale ==
    /\ variant = "v1"
    /\ phase = "config"
    /\ opts = << >>
    /\ entry = ZeroEntry
    /\ registry = << >>
    /\ regOps = << >>
    /\ env \in LocaleEnvs
    /\ bootConfig \in { Stamp(<<BootConfigE(TRUE, "n1", "", l, <<PlainDatabase>>, PlainLogger)>>) :
                          l \in Locales }
    /\ res = << >>
    /\ loggerEntries = LoggerEntries
    /\ conns = << >>
    /\ log = << >>
    /\ shutdowns = << >>
    /\ calls = [ boot |-> 0, intr |-> 0 ]
    /\ ret = Ret("none", "", "")

NextLocale ==
    \/ RegisterClickHouseEntriesWithConfig
    \/ GetClickHouseEntryCall

SpecLocale == InitLocale /\ [][NextLocale]_vars

----------------------------------------------------------------------------
(* C18 *)

\* C18: a named block with a locale realm::region::az::domain is taken iff
\* every segment that is not "*" equals the value of REALM, REGION, AZ and
\* DOMAIN respectively; so "*::*::*::*" is taken in every environment.
C18_LocaleMatchesIffSegmentsAgree ==
    (phase = "loaded" /\ variant = "v1") =>
        \A i \in DOMAIN bootConfig :
            LET b == bootConfig[i]
            IN (b.Name # "" /\ Len(b.Locale) = 4 /\ Len(bootConfig) = 1) =>
                 /\ b.Name \in DOMAIN res <=>
                        \A k \in 1..4 : b.Locale[k] = "*" \/ b.Locale[k] = EnvValues(env)[k]
                 /\ b.Locale = <<"*", "*", "*", "*">> => b.Name \in DOMAIN res

\* a block whose realm and az agree with the environment and whose other
\* segments are wildcards was taken
C18_Witness ==
    /\ phase = "loaded" /\ variant = "v1"
    /\ Len(bootConfig) = 1
    /\ bootConfig[1].Locale = <<"rk", "*", "eu", "*">>
    /\ env.realm = "rk" /\ env.az = "eu" /\ env.region = "" /\ env.domain = ""
    /\ "n1" \in DOMAIN res

----------------------------------------------------------------------------
(* C17 *)

\* C17: once Bootstrap is done with a descriptor (its create statement has
\* succeeded or failed, or the open itself has failed) the server connection
\* opened for its auto-create step is closed: no such connection is open
\* when Bootstrap has returned.
C17_AutoCreateConnectionClosed ==
    \A c \in DOMAIN conns : conns[c].kind = "server" => conns[c].closed

----------------------------------------------------------------------------
(* C20 *)

\* C20: after any Bootstrap and Interrupt calls every named connection that
\* connect has opened and that is not closed is a handle of the handle map
\* (so that Interrupt reaches it), also when two descriptors share a name
\* and when Bootstrap is called twice.
C20_OpenHandlesAreInTheMap ==
    \A c \in DOMAIN conns :
        (conns[c].kind = "named" /\ ~conns[c].closed) => c \in Handles

----------------------------------------------------------------------------
(* Plugin specification (part_001): an entry whose descriptors carry        *)
(* plugins, built from options or from a YAML block, is bootstrapped.       *)

\* the longest option list of the plugin specification
MaxPluginOpts == 3

\* the plugins a caller hands to WithPlugin
AttachedPlugins == {"prom", "trace"}

\* the option lists: the password, then declarations and attachments
PluginOpts ==
    { <<OptPass("pw1")>> \o os :
        os \in SeqsUpTo({ OptDatabase(n, dr, FALSE, << >>) : n \in DbNames, dr \in BOOLEAN }
                          \cup { OptPlugin(n, p) : n \in DbNames, p \in AttachedPlugins },
                        MaxPluginOpts) }

InitPlugins ==
    /\ variant = "v2"
    /\ \/ phase = "new" /\ bootConfig = << >>
       \/ phase = "config" /\ bootConfig \in { Stamp(<<b>>) : b \in DatabaseBlocks("v2") }
    /\ opts = << >>
    /\ entry = ZeroEntry
    /\ registry = << >>
    /\ regOps = << >>
    /\ env = NoEnv
    /\ res = << >>
    /\ loggerEntries = LoggerEntries
    /\ conns = << >>
    /\ log = << >>
    /\ shutdowns = << >>
    /\ calls = [ boot |-> 0, intr |-> 0 ]
    /\ ret = Ret("none", "", "")

\* RegisterClickHouseEntry(opts...) with WithPlugin among the options
RegisterWithPlugins ==
    /\ phase = "new"
    /\ \E os \in PluginOpts :
        /\ opts' = os
        /\ entry' = BuildEntry(variant, os)
        /\ registry' = AddEntry(variant, registry, RefOf(entry', Len(regOps) + 1))
        /\ regOps' = Append(regOps, RegOp("Add", variant, RefOf(entry', Len(regOps) + 1)))
        /\ ret' = Ret("Register", "", entry'.entryName)
    /\ phase' = "registered"
    /\ UNCHANGED <<variant, env, bootConfig, res, loggerEntries, conns, log, shutdowns, calls>>

\* the caller takes an entry RegisterClickHouseEntryYAML returned, to
\* bootstrap it
TakeEntry ==
    /\ phase = "loaded"
    /\ \E n \in DOMAIN res :
        /\ entry' = res[n].entry
        /\ ret' = Ret("TakeEntry", n, res[n].entry.entryName)
    /\ phase' = "registered"
    /\ UNCHANGED <<variant, opts, registry, regOps, env, bootConfig, res, loggerEntries,
                   conns, log, shutdowns, calls>>

NextPlugins ==
    \/ RegisterWithPlugins
    \/ RegisterClickHouseEntryYAML
    \/ TakeEntry
    \/ Bootstrap
    \/ GetDBCall

SpecPlugins == InitPlugins /\ [][NextPlugins]_vars

----------------------------------------------------------------------------
(* C21 *)

\* the plugins installed on the handle db
InstalledOn(db) == { conns[db].plugins[k] : k \in DOMAIN conns[db].plugins }

\* C21: when a Bootstrap has returned without a shutdown, every plugin of
\* every descriptor (attached by WithPlugin, directly or for the prom and
\* trace sections of a YAML block) is installed on the handle the handle map
\* holds under the descriptor's name.
C21_PluginsInstalledOnHandle ==
    (ret.op = "Bootstrap" /\ phase = "registered") =>
        \A i \in DOMAIN entry.innerDbList :
            LET d == entry.innerDbList[i]
            IN \A j \in DOMAIN d.plugins :
                  /\ d.name \in DOMAIN entry.GormDbMap
                  /\ d.plugins[j] \in InstalledOn(entry.GormDbMap[d.name])

----------------------------------------------------------------------------
(* C23 *)

\* the plugins of the descriptors of the entry e that are named name
PluginsOf(e, name) ==
    UNION { { e.innerDbList[i].plugins[k] : k \in DOMAIN e.innerDbList[i].plugins } :
              i \in { x \in DOMAIN e.innerDbList : e.innerDbList[x].name = name } }

\* C23: for every named database of a block (part_001) with the trace or
\* the prom plugin enabled, the plugin the entry carries for that database
\* was constructed from the block's address as DbAddr, the database's name
\* as DbName and "clickhouse" as DbType.
C23_PluginConfigNamesClickHouse ==
    (variant = "v2" /\ phase = "loaded") =>
        \A n \in DOMAIN res :
            LET b == bootConfig[SourceOf(n)]
            IN \A j \in DOMAIN b.Database :
                  LET db == b.Database[j]
                  IN /\ (db.Name # "" /\ db.Plugins.Trace.Enabled) =>
                            NewPlugin("trace", "clickhouse", b.Addr, db.Name)
                                \in PluginsOf(res[n].entry, db.Name)
                     /\ (db.Name # "" /\ db.Plugins.Prom.Enabled) =>
                            NewPlugin("prom", "clickhouse", b.Addr, db.Name)
                                \in PluginsOf(res[n].entry, db.Name)

----------------------------------------------------------------------------
(* C22 *)

\* the zap logger the block b gets when it is registered alone, from the
\* logger entries as they are before the registration
DelegateAlone(b) ==
    LET lname == LoggerEntryFor(LoggerEntries, b.Logger.Entry)
    IN IF OverridesZap(b.Logger)
       THEN WithCaller(NewZapLogger(OverrideZapConf(LoggerEntries[lname], b.Logger)))
       ELSE WithCaller(lname)

\* C22: whatever order RegisterClickHouseEntryYAML takes the selected blocks
\* in, the zap logger (encoding and output paths) of every entry it returns
\* is the one the entry's own block yields when registered alone: a block
\* that shares its logger entry with another one neither sees nor causes a
\* change of that logger entry's configuration.
C22_LoggerDependsOnOwnBlockOnly ==
    (variant = "v2" /\ phase = "loaded") =>
        \A n \in DOMAIN res :
            res[n].entry.logger.delegate = DelegateAlone(bootConfig[SourceOf(n)])

=============================================================================
